---- MODULE Spec2Model ----
(***************************************************************************)
(* Booking board (src/app.py): the SQLite store (events, suppliers,        *)
(* services), the CSV import, the manual "Add / Edit" form and the delete  *)
(* button.                                                                 *)
(*                                                                         *)
(* Text is a sequence of one-character strings, so that str.strip() and    *)
(* the date / time formats are computed character by character.  A SQL     *)
(* NULL (a blank CSV cell, pandas NaN) is the one-element sequence NULL,   *)
(* which no text equals because its element is not a single character.     *)
(***************************************************************************)
EXTENDS Integers, Sequences, FiniteSets, TLC

VARIABLES events, suppliers, services, last

vars == <<events, suppliers, services, last>>

\* Cap on the number of rows of the events table (the table is unbounded).
MaxEvents == 2

----------------------------------------------------------------------------
(* Text helpers *)

NULL == <<"NULL">>

Whitespace == {" "}

Digits == <<"0", "1", "2", "3", "4", "5", "6", "7", "8", "9">>

\* Characters in code-point order, as Python's sorted() compares them.
CodePoints == <<" ", "+", "-", "/">> \o Digits \o <<":", "A", "E", "M", "P", "a", "b", "c", "n", "t", "u", "x">>

Ord(c) == CHOOSE i \in 1..Len(CodePoints) : CodePoints[i] = c

RECURSIVE lstrip(_)
lstrip(s) == IF s = <<>> THEN s
             ELSE IF Head(s) \in Whitespace THEN lstrip(Tail(s)) ELSE s

RECURSIVE rstrip(_)
rstrip(s) == IF s = <<>> THEN s
             ELSE IF s[Len(s)] \in Whitespace THEN rstrip(SubSeq(s, 1, Len(s) - 1)) ELSE s

\* str.strip()
strip(s) == rstrip(lstrip(s))

\* Series.astype(str): a NaN cell becomes the text "nan".
astype_str(v) == IF v = NULL THEN <<"n", "a", "n">> ELSE v

RECURSIVE StrLess(_, _)
StrLess(s, t) == IF t = <<>> THEN FALSE
                 ELSE IF s = <<>> THEN TRUE
                 ELSE IF Head(s) = Head(t) THEN StrLess(Tail(s), Tail(t))
                 ELSE Ord(Head(s)) < Ord(Head(t))

\* sorted(set(...)) over texts
RECURSIVE sorted(_)
sorted(S) == IF S = {} THEN <<>>
             ELSE LET m == CHOOSE x \in S : \A y \in S \ {x} : StrLess(x, y)
                  IN  <<m>> \o sorted(S \ {m})

\* "%02d"
Pad2(n) == <<Digits[(n \div 10) + 1], Digits[(n % 10) + 1]>>

\* str(date): YYYY-MM-DD
str_date(d) == <<Digits[(d[1] \div 1000) + 1], Digits[((d[1] \div 100) % 10) + 1],
                 Digits[((d[1] \div 10) % 10) + 1], Digits[(d[1] % 10) + 1]>>
               \o <<"-">> \o Pad2(d[2]) \o <<"-">> \o Pad2(d[3])

\* time.strftime("%H:%M")
strftime_HM(t) == Pad2(t[1]) \o <<":">> \o Pad2(t[2])

----------------------------------------------------------------------------

(* The store *)

\* CREATE TABLE events (...): the nine columns of the events table.
EventColumns == {"event_id", "supplier_name", "date", "start_time", "end_time",
                 "client_name", "pax", "service", "status"}

\* SQL equality: a comparison with NULL is never true.
sql_eq(a, b) == a # NULL /\ b # NULL /\ a = b

\* event_id TEXT PRIMARY KEY on a rowid table: SQLite rejects a second row with an
\* equal non-NULL event_id and accepts any number of rows whose event_id is NULL.
UniqueViolation(table, row) ==
    \E i \in 1..Len(table) : sql_eq(table[i].event_id, row.event_id)

\* The INSERT statements of one to_sql call, row by row, up to the first failure.
RECURSIVE executemany(_, _)
executemany(table, rows) ==
    IF rows = <<>> THEN [ok |-> TRUE, table |-> table, error |-> "ok"]
    ELSE IF UniqueViolation(table, Head(rows))
         THEN [ok |-> FALSE, table |-> table, error |-> "IntegrityError"]
         ELSE executemany(Append(table, Head(rows)), Tail(rows))

\* Faulty variant of to_sql: if_exists="replace" drops the table before inserting.
to_sql_replace(table, cols, rows) ==
    IF ~(cols \subseteq EventColumns)
    THEN [ok |-> FALSE, table |-> table, error |-> "OperationalError"]
    ELSE executemany(<<>>, rows)

\* df.to_sql("events", conn, if_exists="append", index=False): a frame column the
\* table does not have makes the INSERT fail.
to_sql(table, cols, rows) ==
    IF ~(cols \subseteq EventColumns)
    THEN [ok |-> FALSE, table |-> table, error |-> "OperationalError"]
    ELSE executemany(table, rows)

\* Faulty variant of engine_begin: every statement is committed as it runs.
autocommit(before, r) == r.table

\* with engine.begin() as conn: commit when the block ends, roll back when it raises.
engine_begin(before, r) == IF r.ok THEN r.table ELSE before

\* Faulty variant of insert_or_ignore: a plain INSERT into a table without a key.
insert_plain(master, n) ==
    IF n \in DOMAIN master THEN [master EXCEPT ![n] = @ + 1] ELSE master @@ (n :> 1)

\* INSERT OR IGNORE INTO suppliers / services: a master table is a map from a name
\* to the number of rows that hold it.
insert_or_ignore(master, n) ==
    IF n \in DOMAIN master THEN master ELSE master @@ (n :> 1)

\* add_supplier / add_service
add_master(master, name) ==
    LET n == strip(name)
    IN  IF n = <<>> THEN master ELSE insert_or_ignore(master, n)

\* Faulty variant of add_masters: the loop returns after its first name.
add_masters_first(master, names) ==
    IF names = <<>> THEN master ELSE add_master(master, Head(names))

\* for s in sorted(set(...)): add_supplier(s)
RECURSIVE add_masters(_, _)
add_masters(master, names) ==
    IF names = <<>> THEN master
    ELSE add_masters(add_master(master, Head(names)), Tail(names))

\* set(df[col].astype(str).str.strip())
stripped_names(rows, col) == {strip(astype_str(rows[i][col])) : i \in 1..Len(rows)}

\* DELETE FROM events WHERE event_id = :id
delete_event(table, id) == SelectSeq(table, LAMBDA e : ~sql_eq(e.event_id, id))

\* Faulty variant of upsert_row: the DELETE statement is left out.
upsert_no_delete(table, row) ==
    engine_begin(table, to_sql(table, EventColumns, <<row>>))

\* upsert_row: DELETE then to_sql of the one-row frame, in one transaction.
upsert_row(table, row) ==
    engine_begin(table, to_sql(delete_event(table, row.event_id), EventColumns, <<row>>))

----------------------------------------------------------------------------
(* CSV import *)

\* required = {...} in import_csv_df
required == {"event_id", "supplier_name", "date", "start_time", "end_time",
             "client_name", "pax", "service", "status"}

\* Faulty variant of missing_columns: only one missing column is reported.
missing_one(cols) ==
    IF required \subseteq cols THEN {} ELSE {CHOOSE c \in required : c \notin cols}

\* missing = required - set(df.columns)
missing_columns(cols) == required \ cols

\* The last click: the widget values it read (the uploaded frame, the form's
\* widgets, the "Delete by ID" text; Streamlit keeps them after the run) and what the
\* page then shows (st.success / st.error / st.warning).
Outcome(op, input, result, missing, errors) ==
    [op |-> op, input |-> input, result |-> result, missing |-> missing, errors |-> errors]

\* The sidebar upload: import_csv_df(df) inside try / except, then st.success or
\* st.error with the exception's text.
ImportCsv(df) ==
    LET missing == missing_columns(df.cols)
        r == to_sql(events, df.cols, df.rows)
        stored == engine_begin(events, r)
    IN  IF missing # {}
        THEN /\ last' = Outcome("import", df, "ValueError", missing, <<>>)
             /\ UNCHANGED <<events, suppliers, services>>
        ELSE /\ last' = Outcome("import", df, r.error, {}, <<>>)
             /\ Len(stored) <= MaxEvents
             /\ events' = stored
             /\ IF r.ok
                THEN /\ suppliers' = add_masters(suppliers,
                                        sorted(stripped_names(df.rows, "supplier_name")))
                     /\ services' = add_masters(services,
                                        sorted(stripped_names(df.rows, "service")))
                ELSE UNCHANGED <<suppliers, services>>

----------------------------------------------------------------------------
(* Delete by ID *)

\* if st.button("Delete"): if del_id.strip(): delete_event(del_id.strip())
DeleteClick(del_id) ==
    IF strip(del_id) = <<>>
    THEN UNCHANGED vars
    ELSE /\ last' = Outcome("delete", del_id, "ok", {}, <<>>)
         /\ events' = delete_event(events, strip(del_id))
         /\ UNCHANGED <<suppliers, services>>

----------------------------------------------------------------------------
(* Add / Edit form *)

\* ADD_NEW = "+ Add new..." (one character stands for the label)
ADD_NEW == <<"+">>

\* list_suppliers() / list_services(): the names of a master table
list_master(master) == DOMAIN master

\* sup_ui / svc_ui: the master's names, then ADD_NEW
select_options(master) == list_master(master) \cup {ADD_NEW}

\* datetime.now().strftime('%Y%m%d%H%M%S')
strftime_YmdHMS(now) ==
    <<Digits[(now[1] \div 1000) + 1], Digits[((now[1] \div 100) % 10) + 1],
      Digits[((now[1] \div 10) % 10) + 1], Digits[(now[1] % 10) + 1]>>
    \o Pad2(now[2]) \o Pad2(now[3]) \o Pad2(now[4]) \o Pad2(now[5]) \o Pad2(now[6])

\* row = dict(...) built from the submitted widgets
form_row(f) ==
    [event_id      |-> IF strip(f.event_id) # <<>> THEN strip(f.event_id)
                       ELSE <<"E">> \o strftime_YmdHMS(f.now),
     supplier_name |-> strip(IF f.sel_supplier = ADD_NEW THEN f.new_supplier
                             ELSE f.sel_supplier),
     date          |-> str_date(f.the_date),
     start_time    |-> strftime_HM(f.start_t),
     end_time      |-> strftime_HM(f.end_t),
     client_name   |-> strip(f.client_name),
     pax           |-> f.pax,
     service       |-> strip(IF f.sel_service = ADD_NEW THEN f.new_service
                             ELSE f.sel_service),
     status        |-> f.status]

\* datetime.combine(the_date, t), compared within one date
minutes(t) == t[1] * 60 + t[2]

\* Faulty variant of form_errors: fail fast, only the first violation is reported.
form_errors_first(f) ==
    LET row == form_row(f)
    IN  IF row.supplier_name = <<>> THEN <<"Supplier is required.">>
        ELSE IF row.service = <<>> THEN <<"Service is required.">>
        ELSE IF row.client_name = <<>> THEN <<"Client is required.">>
        ELSE IF minutes(f.end_t) <= minutes(f.start_t)
             THEN <<"End time must be greater than start time.">>
        ELSE <<>>

\* the "minimal validations": the list errors, in the order it is appended to
form_errors(f) ==
    LET row == form_row(f)
    IN  (IF row.supplier_name = <<>> THEN <<"Supplier is required.">> ELSE <<>>)
        \o (IF row.service = <<>> THEN <<"Service is required.">> ELSE <<>>)
        \o (IF row.client_name = <<>> THEN <<"Client is required.">> ELSE <<>>)
        \o (IF minutes(f.end_t) <= minutes(f.start_t)
            THEN <<"End time must be greater than start time.">> ELSE <<>>)

\* if errors: st.error(...) else: persist
form_rejected(f) == form_errors(f) # <<>>

\* if submitted: ... (the "Save / Update" button of simple_form)
SimpleFormSubmit(f) ==
    LET row == form_row(f)
        stored == upsert_row(events, row)
    IN  IF form_rejected(f)
        THEN /\ last' = Outcome("save", f, "rejected", {}, form_errors(f))
             /\ UNCHANGED <<events, suppliers, services>>
        ELSE /\ last' = Outcome("save", f, "ok", {}, <<>>)
             /\ Len(stored) <= MaxEvents
             /\ suppliers' = add_master(suppliers, row.supplier_name)
             /\ services' = add_master(services, row.service)
             /\ events' = stored

----------------------------------------------------------------------------
(* Inputs *)

booked == <<"b", "o", "o", "k", "e", "d">>
hold == <<"h", "o", "l", "d">>

CsvIds == {<<"E", "1">>, NULL}

\* A clean row; a row with padded names, an unparseable time and a status outside
\* the vocabulary; a row with blank cells and an unparseable date.
CsvContents ==
    { [supplier_name |-> <<"a">>, date |-> <<"2","0","2","4","-","0","6","-","0","1">>,
       start_time |-> <<"0","9",":","0","0">>, service |-> <<"t">>, status |-> booked],
      [supplier_name |-> <<" ","a"," ">>, date |-> <<"0","3","/","0","4","/","2","0","2","4">>,
       start_time |-> <<"x">>, service |-> <<" ">>, status |-> <<"C","o","n","f">>],
      [supplier_name |-> NULL, date |-> <<"x">>,
       start_time |-> <<"9",":","0","0"," ","P","M">>, service |-> <<"t"," ">>, status |-> hold] }

CsvRows ==
    { [event_id |-> id, supplier_name |-> c.supplier_name, date |-> c.date,
       start_time |-> c.start_time, end_time |-> <<"1","3",":","3","0">>,
       client_name |-> <<"c">>, pax |-> 2, service |-> c.service, status |-> c.status]
      : id \in CsvIds, c \in CsvContents }

\* Frames with every required column and no, one or two rows (the second one
\* clean); frames that lack
\* required columns or carry a column the table does not have.
CsvFrames ==
    {[cols |-> required, rows |-> r] :
        r \in {<<>>} \cup {<<x>> : x \in CsvRows}
              \cup {<<x, y>> : x \in CsvRows, y \in {r \in CsvRows : r.status = booked}}}
    \cup {[cols |-> c, rows |-> <<x>>] :
            c \in {required \ {"pax"}, required \ {"pax", "status"}, required \cup {"notes"}},
            x \in {r \in CsvRows : r.event_id = NULL /\ r.status = booked}}

FormWidgets(ss, ns, sv, nv, c, et, st, id) ==
    [sel_supplier |-> ss, new_supplier |-> ns, sel_service |-> sv, new_service |-> nv,
     client_name |-> c, the_date |-> <<2024, 6, 1>>, start_t |-> <<9, 0>>, end_t |-> et,
     pax |-> 3, status |-> st, event_id |-> id, now |-> <<2024, 6, 1, 9, 0, 5>>]

\* Submissions that pick any offered supplier and service (typing a name under
\* ADD_NEW), and submissions that break the validations in every combination.
FormInputs ==
    { FormWidgets(ss, IF ss = ADD_NEW THEN <<"a", " ">> ELSE <<>>,
                  sv, IF sv = ADD_NEW THEN <<" ", "t">> ELSE <<>>, <<"c">>, <<10, 0>>, st, id)
      : ss \in select_options(suppliers), sv \in select_options(services),
        st \in {booked, hold}, id \in {<<>>, <<" ", "E", "1">>} }
    \cup
    { FormWidgets(ADD_NEW, ns, ADD_NEW, nv, c, et, booked, <<>>)
      : ns \in {<<" ">>, <<"a">>}, nv \in {<<>>, <<"t">>},
        c \in {<<" ">>, <<"c">>}, et \in {<<9, 0>>, <<10, 0>>} }

DeleteTexts == {<<" ">>, <<"E", "1", " ">>, <<"E">> \o strftime_YmdHMS(<<2024, 6, 1, 9, 0, 5>>)}

----------------------------------------------------------------------------
(* Date Parser and Time Parser of the import normalizer.  <<>> is "unparseable". *)

IsNumber(s) == s # <<>> /\ \A i \in 1..Len(s) : \E d \in 1..Len(Digits) : Digits[d] = s[i]

RECURSIVE NumVal(_)
NumVal(s) == IF s = <<>> THEN 0
             ELSE NumVal(SubSeq(s, 1, Len(s) - 1)) * 10
                  + (CHOOSE d \in 1..Len(Digits) : Digits[d] = s[Len(s)]) - 1

\* s.split(sep)
RECURSIVE Split(_, _)
Split(s, sep) ==
    IF \A i \in 1..Len(s) : s[i] # sep THEN <<s>>
    ELSE LET i == CHOOSE k \in 1..Len(s) : s[k] = sep /\ \A j \in 1..(k - 1) : s[j] # sep
         IN  <<SubSeq(s, 1, i - 1)>> \o Split(SubSeq(s, i + 1, Len(s)), sep)

\* a one- or two-digit field with a value in lo..hi
Field2(s, lo, hi) == IsNumber(s) /\ Len(s) <= 2 /\ NumVal(s) \in lo..hi

IsLeap(y) == (y % 4 = 0 /\ y % 100 # 0) \/ y % 400 = 0

DaysInMonth(y, m) == IF m = 2 THEN (IF IsLeap(y) THEN 29 ELSE 28)
                     ELSE IF m \in {4, 6, 9, 11} THEN 30 ELSE 31

\* a calendar date from year, month and day fields, or <<>>
MakeDate(y, m, d) ==
    IF /\ IsNumber(y) /\ Len(y) = 4 /\ NumVal(y) >= 1
       /\ Field2(m, 1, 12)
       /\ Field2(d, 1, 31) /\ NumVal(d) <= DaysInMonth(NumVal(y), NumVal(m))
    THEN <<NumVal(y), NumVal(m), NumVal(d)>> ELSE <<>>

\* parse_date: day/month/year, then year-month-day, then month/day/year
parse_date(raw) ==
    LET s == strip(astype_str(raw))
        p == Split(s, "/")
        q == Split(s, "-")
        dmy == IF Len(p) = 3 THEN MakeDate(p[3], p[2], p[1]) ELSE <<>>
        ymd == IF Len(q) = 3 THEN MakeDate(q[1], q[2], q[3]) ELSE <<>>
        mdy == IF Len(p) = 3 THEN MakeDate(p[3], p[1], p[2]) ELSE <<>>
    IN  IF dmy # <<>> THEN dmy ELSE IF ymd # <<>> THEN ymd ELSE mdy

\* parse_time: HH:MM, then HH:MM:SS, then 12-hour HH:MM AM/PM, then bare HHMM
parse_time(raw) ==
    LET s == astype_str(raw)
        p == Split(s, ":")
        w == Split(s, " ")
        h12 == IF Len(w) = 2 THEN Split(w[1], ":") ELSE <<>>
    IN  IF Len(p) = 2 /\ Field2(p[1], 0, 23) /\ Field2(p[2], 0, 59)
        THEN <<NumVal(p[1]), NumVal(p[2])>>
        ELSE IF Len(p) = 3 /\ Field2(p[1], 0, 23) /\ Field2(p[2], 0, 59) /\ Field2(p[3], 0, 59)
        THEN <<NumVal(p[1]), NumVal(p[2])>>
        ELSE IF /\ Len(h12) = 2 /\ Field2(h12[1], 1, 12) /\ Field2(h12[2], 0, 59)
                /\ w[2] \in {<<"A", "M">>, <<"P", "M">>}
        THEN <<(NumVal(h12[1]) % 12) + (IF w[2] = <<"P", "M">> THEN 12 ELSE 0), NumVal(h12[2])>>
        ELSE IF IsNumber(s) /\ Len(s) = 4 /\ NumVal(SubSeq(s, 1, 2)) <= 23
                /\ NumVal(SubSeq(s, 3, 4)) <= 59
        THEN <<NumVal(SubSeq(s, 1, 2)), NumVal(SubSeq(s, 3, 4))>>
        ELSE <<>>

----------------------------------------------------------------------------
(* The board *)

\* ensure_tables on a fresh data.db: the three tables exist and are empty.
Init == /\ events = <<>>
        /\ suppliers = <<>>
        /\ services = <<>>
        /\ last = Outcome("init", <<>>, "ok", {}, <<>>)

Next == \/ \E df \in CsvFrames : ImportCsv(df)
        \/ \E f \in FormInputs : SimpleFormSubmit(f)
        \/ \E del_id \in DeleteTexts : DeleteClick(del_id)

Spec == Init /\ [][Next]_vars

----------------------------------------------------------------------------
(* Properties *)

StoredIds == {events[i].event_id : i \in 1..Len(events)}

\* C1: an import of a frame that lacks a column of the events table fails with an
\* error that names every missing column, and leaves the events table and both
\* master tables as they were.
MissingColumnsAbort ==
    [][(last'.op = "import" /\ ~(EventColumns \subseteq last'.input.cols))
       => /\ last'.result = "ValueError"
          /\ last'.missing = EventColumns \ last'.input.cols
          /\ events' = events /\ suppliers' = suppliers /\ services' = services]_vars

MissingColumnsAbortWitness ==
    /\ last.op = "import" /\ last.result = "ValueError"
    /\ last.missing = {"pax", "status"}
    /\ last.input.rows # <<>>
    /\ events # <<>> /\ suppliers # <<>>

\* C2: an import stores its whole batch or nothing: afterwards the events table is
\* the table before the call, or that table followed by every row of the batch.
ImportAtomic ==
    [][last'.op = "import"
       => (events' = events \/ events' = events \o last'.input.rows)]_vars

\* A two-row batch whose first row can be inserted and whose second row has a
\* stored event_id.
ImportAtomicWitness ==
    /\ last.op = "import" /\ last.result = "IntegrityError"
    /\ Len(last.input.rows) = 2
    /\ last.input.rows[1].event_id = NULL
    /\ last.input.rows[2].event_id \in StoredIds
    /\ last.input.rows[1] \notin {events[i] : i \in 1..Len(events)}

\* C3: a name registered more than once, by imports or by manual saves, has
\* exactly one row in its master table: no master table holds a name twice, and
\* the name of every stored event is held once.
MasterIdempotent ==
    /\ \A n \in DOMAIN suppliers : suppliers[n] = 1
    /\ \A n \in DOMAIN services : services[n] = 1
    /\ \A i \in 1..Len(events) :
          /\ strip(astype_str(events[i].supplier_name)) # <<>>
                => strip(astype_str(events[i].supplier_name)) \in DOMAIN suppliers
          /\ strip(astype_str(events[i].service)) # <<>>
                => strip(astype_str(events[i].service)) \in DOMAIN services

\* An imported event and a manually saved one with the same supplier and service.
MasterIdempotentWitness ==
    \E i, j \in 1..Len(events) :
        /\ events[i].pax = 2 /\ events[j].pax = 3
        /\ events[i].supplier_name # NULL
        /\ strip(events[i].supplier_name) = events[j].supplier_name
        /\ strip(events[i].service) = events[j].service
        /\ suppliers[events[j].supplier_name] = 1
        /\ services[events[j].service] = 1

\* C4: an import only appends: the events stored before the call are, after it,
\* still the first rows of the table, in the same order and equal in every field.
ImportAppends ==
    [][last'.op = "import"
       => /\ Len(events') >= Len(events)
          /\ SubSeq(events', 1, Len(events)) = events]_vars

ImportAppendsWitness ==
    /\ last.op = "import" /\ last.result = "ok"
    /\ Len(events) = 2 /\ events[1].pax = 3
    /\ last.input.rows = <<events[2]>>

\* C5: after a save the events table holds exactly one event with the saved row's
\* event_id, that event equals the row in every field, and the events with another
\* event_id are the same as before, in the same order.
UpsertReplaces ==
    [][(last'.op = "save" /\ last'.result = "ok")
       => LET row == form_row(last'.input)
          IN  /\ Cardinality({i \in 1..Len(events') :
                                events'[i].event_id = row.event_id}) = 1
              /\ \A i \in 1..Len(events') :
                    events'[i].event_id = row.event_id => events'[i] = row
              /\ SelectSeq(events', LAMBDA e : e.event_id # row.event_id)
                 = SelectSeq(events, LAMBDA e : e.event_id # row.event_id)]_vars

UpsertReplacesWitness ==
    /\ last.op = "save" /\ last.result = "ok"
    /\ Len(events) = 2
    /\ events[1].event_id = NULL
    /\ events[2] = form_row(last.input)
    /\ events[2].event_id = <<"E", "1">> /\ events[2].status = hold

\* The rules a submission violates, read off the submitted widgets.
Violations(f) ==
    {m \in {"Supplier is required."} :
        strip(IF f.sel_supplier = ADD_NEW THEN f.new_supplier ELSE f.sel_supplier) = <<>>}
    \cup {m \in {"Service is required."} :
        strip(IF f.sel_service = ADD_NEW THEN f.new_service ELSE f.sel_service) = <<>>}
    \cup {m \in {"Client is required."} : strip(f.client_name) = <<>>}
    \cup {m \in {"End time must be greater than start time."} :
        ~(f.end_t[1] > f.start_t[1] \/ (f.end_t[1] = f.start_t[1] /\ f.end_t[2] > f.start_t[2]))}

\* C6: a submission that violates a rule is answered with one message holding
\* every violated rule and changes neither the events table nor a master table;
\* a submission that violates none is saved.
FormValidatesFirst ==
    [][last'.op = "save"
       => IF Violations(last'.input) # {}
          THEN /\ last'.result = "rejected"
               /\ {last'.errors[i] : i \in 1..Len(last'.errors)} = Violations(last'.input)
               /\ Len(last'.errors) = Cardinality(Violations(last'.input))
               /\ events' = events /\ suppliers' = suppliers /\ services' = services
          ELSE /\ last'.result = "ok"
               /\ \E i \in 1..Len(events') : events'[i] = form_row(last'.input)
               /\ form_row(last'.input).supplier_name \in DOMAIN suppliers'
               /\ form_row(last'.input).service \in DOMAIN services']_vars

FormValidatesFirstWitness ==
    /\ last.op = "save" /\ last.result = "rejected"
    /\ Len(last.errors) = 4
    /\ events # <<>>

\* C7: every stored event has status booked or hold.
StatusInVocabulary ==
    \A i \in 1..Len(events) : events[i].status \in {booked, hold}

\* C8: every stored event has a date and a start_time that parse.
StoredEventsParse ==
    \A i \in 1..Len(events) :
        parse_date(events[i].date) # <<>> /\ parse_time(events[i].start_time) # <<>>

\* C9: no two stored events have the same event_id.
EventIdIsKey ==
    \A i, j \in 1..Len(events) : i # j => events[i].event_id # events[j].event_id

\* Every stored event's trimmed supplier and service is empty (or a blank cell)
\* or a name of its master table.
MastersCover ==
    \A i \in 1..Len(events) :
        /\ \/ events[i].supplier_name = NULL
           \/ strip(events[i].supplier_name) = <<>>
           \/ strip(events[i].supplier_name) \in DOMAIN suppliers
        /\ \/ events[i].service = NULL
           \/ strip(events[i].service) = <<>>
           \/ strip(events[i].service) \in DOMAIN services

\* C10: from an empty store, after every import, save or delete the master tables
\* cover the stored events, and a delete leaves both master tables as they were.
MastersCoverEvents ==
    /\ MastersCover
    /\ [][/\ MastersCover'
          /\ last'.op = "delete" => (suppliers' = suppliers /\ services' = services)]_vars

MastersCoverEventsWitness ==
    /\ last.op = "delete"
    /\ Len(events) = 1 /\ events[1].supplier_name = <<" ", "a", " ">>
    /\ <<"a">> \in DOMAIN suppliers
    /\ <<"t">> \in DOMAIN services
====
